---- MODULE Spec2Model ----
(***************************************************************************)
(* Model of the MQTT connection library (src/src/mqtt_connect.c).          *)
(*                                                                         *)
(* Several execution contexts share the module's globals:                  *)
(*   - the caller of mqtt_start / mqtt_stop (callerPc),                    *)
(*   - the task of every client that has been started and not stopped,     *)
(*     which runs mqtt_event_handler for that client's events (cbPc[c]).   *)
(* mqtt_start checks nothing before it overwrites the two handles, so a    *)
(* client whose handle has been overwritten keeps running with the handler *)
(* registered, and its events reach the event group of the moment.         *)
(* The event group is modelled with FreeRTOS semantics: SetBits and        *)
(* ClearBits are atomic, and a task blocked in xEventGroupWaitBits is      *)
(* released by the SetBits call that satisfies its wait and is handed the  *)
(* bit value of that moment.                                               *)
(***************************************************************************)
EXTENDS Integers, Sequences, FiniteSets, TLC

(***************************************************************************)
(* Bounds of the model.                                                    *)
(***************************************************************************)
\* Capacity of the heap: at most this many event groups, and this many
\* client instances, are allocated at a time; an allocation beyond it fails.
MaxAlloc == 2

(***************************************************************************)
(* Program constants.                                                      *)
(***************************************************************************)
MQTT_EVTGRP_CONNECTED_BIT    == 1
MQTT_EVTGRP_DISCONNECTED_BIT == 2
MQTT_EVTGRP_ERROR_BIT        == 4

NULL == 0

ESP_OK                             == 0
ESP_FAIL                           == -1
ESP_ERR_INVALID_ARG                == 258
ESP_ERR_INVALID_STATE              == 259
ESP_ERR_NOT_SUPPORTED              == 262
\* enum esp_mqtt_error_type_t of the MQTT client library
MQTT_ERROR_TYPE_NONE               == 0
MQTT_ERROR_TYPE_TCP_TRANSPORT      == 1
MQTT_ERROR_TYPE_CONNECTION_REFUSED == 2

\* The bits mqtt_start waits for.
WaitMask == {MQTT_EVTGRP_CONNECTED_BIT, MQTT_EVTGRP_DISCONNECTED_BIT,
             MQTT_EVTGRP_ERROR_BIT}

\* Error codes a failing call of the client library hands back
\* (ESP_RETURN_ON_ERROR propagates any value other than ESP_OK).
LibErrors == {ESP_FAIL, ESP_ERR_INVALID_ARG}

\* Object identities the allocators hand out.
Handles == 1..MaxAlloc

\* The event kinds the handler only logs.
LogOnlyEvents == {"MQTT_EVENT_SUBSCRIBED", "MQTT_EVENT_UNSUBSCRIBED",
                  "MQTT_EVENT_PUBLISHED", "MQTT_EVENT_DATA", "MQTT_EVENT_OTHER"}

\* How the history of the handler records an event of a kind it only logs.
LoggedOnly == "logged only"

\* event->error_handle->error_type values the handler tells apart in its log.
ErrorTypes == {MQTT_ERROR_TYPE_NONE, MQTT_ERROR_TYPE_TCP_TRANSPORT,
               MQTT_ERROR_TYPE_CONNECTION_REFUSED}

VARIABLES
    \* ---- program state ----
    s_mqtt_evtgrp_hdl,   \* event group handle (NULL or a handle)
    mqtt_connected,      \* volatile bool mqtt_connected
    mqtt_client_hdl,     \* client handle (NULL or a handle)
    evtBits,             \* bits of the event group s_mqtt_evtgrp_hdl refers to
    mqtt_link_bits,      \* mqtt_start's local: what xEventGroupWaitBits returned
    callerPc,            \* where the caller of mqtt_start / mqtt_stop stands
    cbPc,                \* for each client, where its task stands in the handler
    startRet,            \* value returned by the last mqtt_start that returned
    stopRet,             \* value returned by the last mqtt_stop that returned
    \* ---- the client library and the heap ----
    evtgrpHeap,          \* event groups allocated and not freed
    clientHeap,          \* client instances initialised and not destroyed
    registered,          \* the clients mqtt_event_handler is registered with
    running,             \* the clients whose task runs (started and not stopped)
    crashed,             \* the firmware aborted (a library call on a bad handle)
    \* ---- history of the API call entered last ----
    lastCall,            \* "none", "start" or "stop"
    trace,               \* the underlying calls it made, in order
    connectedAtEntry,    \* mqtt_connected when it was entered
    hdlsAtEntry,         \* <<client handle, event group handle>> at its entry
    libFailed,           \* one of its underlying calls failed
    \* ---- history of the events of the current cycle ----
    lastEvent,           \* event the handler was invoked with last (LoggedOnly
                         \* for every kind the handler only logs)
    lastCD,              \* last Connected/Disconnected event handled completely
    begunCD,             \* last Connected/Disconnected event the handler was
                         \* invoked with
    eventsSeen,          \* outcome events the handler was invoked with
    dupEvent,            \* the handler's last invocation was with the same
                         \* outcome event as the invocation before it
    cbAfterReturn,       \* the clients whose handler was last entered after
                         \* mqtt_start returned
    lastCDAfterReturn,   \* last Connected/Disconnected event handled wholly
                         \* after mqtt_start returned from its wait
    \* ---- history of the wait ----
    readIdle,            \* the handler was idle when the wait read the bits
    readLastCD,          \* lastCD when the wait read the bits
    readSeen,            \* eventsSeen when the wait read the bits
    readBegunCD,         \* begunCD when the wait read the bits
    startReturned,       \* mqtt_start returned from its wait in this cycle
    \* ---- other history ----
    setupComplete,       \* a start completed its setup and no stop tore it down
    nullLibCall,         \* the API call entered last handed a NULL handle to
                         \* a client library call
    startInCycle,        \* mqtt_start was entered while a completed setup
                         \* had not been torn down
    startWhileRunning    \* mqtt_start was entered while a client task was
                         \* running

progVars == <<s_mqtt_evtgrp_hdl, mqtt_connected, mqtt_client_hdl, evtBits,
              mqtt_link_bits, callerPc, cbPc, startRet, stopRet>>
envVars  == <<evtgrpHeap, clientHeap, registered, running, crashed>>
callHist == <<lastCall, trace, connectedAtEntry, hdlsAtEntry, libFailed>>
evtHist  == <<lastEvent, lastCD, begunCD, eventsSeen, dupEvent, cbAfterReturn,
              lastCDAfterReturn>>
readHist == <<readIdle, readLastCD, readSeen, readBegunCD>>
miscHist == <<nullLibCall, startInCycle, startWhileRunning>>
histVars == <<callHist, evtHist, readHist, startReturned, setupComplete,
              miscHist>>
vars     == <<progVars, envVars, histVars>>

(***************************************************************************)
(* Pure helpers.                                                           *)
(***************************************************************************)
\* A handle the allocator can return: the least identity not in use.
FreshHandle(heap) == CHOOSE h \in Handles \ heap : \A g \in Handles \ heap : h <= g

\* OutcomeOf with the Disconnected bit tested before the Connected bit.
OutcomeOf_DisconnectedFirst(bits) ==
    IF MQTT_EVTGRP_DISCONNECTED_BIT \in bits
      THEN [connected |-> FALSE, ret |-> MQTT_ERROR_TYPE_CONNECTION_REFUSED]
    ELSE IF MQTT_EVTGRP_CONNECTED_BIT \in bits
      THEN [connected |-> TRUE,  ret |-> ESP_OK]
    ELSE IF MQTT_EVTGRP_ERROR_BIT \in bits
      THEN [connected |-> FALSE, ret |-> MQTT_ERROR_TYPE_NONE]
    ELSE [connected |-> FALSE, ret |-> ESP_ERR_NOT_SUPPORTED]

\* The if / else-if chain of mqtt_start on the bits the wait returned.
OutcomeOf(bits) ==
    IF MQTT_EVTGRP_CONNECTED_BIT \in bits
      THEN [connected |-> TRUE,  ret |-> ESP_OK]
    ELSE IF MQTT_EVTGRP_DISCONNECTED_BIT \in bits
      THEN [connected |-> FALSE, ret |-> MQTT_ERROR_TYPE_CONNECTION_REFUSED]
    ELSE IF MQTT_EVTGRP_ERROR_BIT \in bits
      THEN [connected |-> FALSE, ret |-> MQTT_ERROR_TYPE_NONE]
    ELSE [connected |-> FALSE, ret |-> ESP_ERR_NOT_SUPPORTED]

\* xEventGroupSetBits on a bit value.
SetBits(bits, b)   == bits \cup {b}

\* ClearBits that leaves the complementary bit set.
ClearBits_Skipped(bits, b) == bits

\* ClearBits that clears the other one of the Connected and Disconnected bits:
\* the bit the handler has just set instead of the complementary one.
ClearBits_WrongBit(bits, b) ==
    bits \ ({MQTT_EVTGRP_CONNECTED_BIT, MQTT_EVTGRP_DISCONNECTED_BIT} \ {b})

\* xEventGroupClearBits on a bit value.
ClearBits(bits, b) == bits \ {b}

\* ReturnsOnError that lets the function go on after a failed call.
ReturnsOnError_Ignored(r) == FALSE

\* ESP_RETURN_ON_ERROR(x, ...): returns x from the function when x != ESP_OK.
ReturnsOnError(r) == r # ESP_OK

\* ESP_RETURN_ON_FALSE(a, ...): returns when a is NULL.
ReturnsOnFalse(h) == h = NULL

\* HeapFree that leaves the object allocated.
HeapFree_Leak(heap, h) == heap

\* free() / esp_mqtt_client_destroy() of the object h refers to (free(NULL)
\* does nothing).
HeapFree(heap, h) == heap \ {h}

\* What a fallible call of the client library can return.
LibResults == {ESP_OK} \cup LibErrors

Init ==
    /\ s_mqtt_evtgrp_hdl = NULL
    /\ mqtt_connected = FALSE
    /\ mqtt_client_hdl = NULL
    /\ evtBits = {}
    /\ mqtt_link_bits = {}
    /\ callerPc = "idle"
    /\ cbPc = [c \in Handles |-> "idle"]
    /\ startRet = ESP_OK
    /\ stopRet = ESP_OK
    /\ evtgrpHeap = {}
    /\ clientHeap = {}
    /\ registered = {}
    /\ running = {}
    /\ crashed = FALSE
    /\ lastCall = "none"
    /\ trace = <<>>
    /\ connectedAtEntry = FALSE
    /\ hdlsAtEntry = <<NULL, NULL>>
    /\ libFailed = FALSE
    /\ lastEvent = "none"
    /\ lastCD = "none"
    /\ begunCD = "none"
    /\ eventsSeen = {}
    /\ dupEvent = FALSE
    /\ cbAfterReturn = {}
    /\ lastCDAfterReturn = "none"
    /\ readIdle = FALSE
    /\ readLastCD = "none"
    /\ readSeen = {}
    /\ readBegunCD = "none"
    /\ startReturned = FALSE
    /\ setupComplete = FALSE
    /\ nullLibCall = FALSE
    /\ startInCycle = FALSE
    /\ startWhileRunning = FALSE

\* No client's task is inside the handler.
HandlerIdle == \A c \in Handles : cbPc[c] = "idle"

(***************************************************************************)
(* mqtt_start, src/src/mqtt_connect.c:139-193.  Nothing in it checks the  *)
(* state of the module, so the caller can enter it in any state, with a   *)
(* client still running included.                                          *)
(***************************************************************************)
\* Lines 143-144: xEventGroupCreate and its ESP_RETURN_ON_FALSE.
StartCreateEventGroup ==
    /\ callerPc = "idle" /\ ~crashed
    /\ lastCall' = "start"
    /\ trace' = <<"xEventGroupCreate">>
    /\ connectedAtEntry' = mqtt_connected
    /\ hdlsAtEntry' = <<mqtt_client_hdl, s_mqtt_evtgrp_hdl>>
    /\ lastEvent' = "none" /\ lastCD' = "none" /\ eventsSeen' = {}
    /\ begunCD' = "none"
    /\ dupEvent' = FALSE
    /\ startInCycle' = (startInCycle \/ setupComplete)
    /\ startWhileRunning' = (startWhileRunning \/ running # {})
    /\ nullLibCall' = FALSE
    /\ cbAfterReturn' = {} /\ lastCDAfterReturn' = "none"
    /\ readIdle' = FALSE /\ readLastCD' = "none" /\ readSeen' = {}
    /\ readBegunCD' = "none"
    /\ startReturned' = FALSE
    /\ setupComplete' = FALSE
    /\ mqtt_link_bits' = {}
    /\ evtBits' = {}
    /\ \E h \in {NULL} \cup (IF Handles \ evtgrpHeap = {} THEN {}
                              ELSE {FreshHandle(evtgrpHeap)}) :
          /\ s_mqtt_evtgrp_hdl' = h
          /\ evtgrpHeap' = IF h = NULL THEN evtgrpHeap ELSE evtgrpHeap \cup {h}
          /\ libFailed' = (h = NULL)
          /\ IF ReturnsOnFalse(h)
               THEN /\ startRet' = ESP_ERR_INVALID_STATE
                    /\ callerPc' = "idle"
               ELSE /\ startRet' = startRet
                    /\ callerPc' = "s_init"
    /\ UNCHANGED <<mqtt_connected, mqtt_client_hdl, cbPc, stopRet, clientHeap,
                   registered, running, crashed>>

\* Lines 147-156: esp_mqtt_client_init and its ESP_RETURN_ON_FALSE.
StartClientInit ==
    /\ callerPc = "s_init" /\ ~crashed
    /\ trace' = Append(trace, "esp_mqtt_client_init")
    /\ \E c \in {NULL} \cup (IF Handles \ clientHeap = {} THEN {}
                              ELSE {FreshHandle(clientHeap)}) :
          /\ mqtt_client_hdl' = c
          /\ clientHeap' = IF c = NULL THEN clientHeap ELSE clientHeap \cup {c}
          /\ libFailed' = (libFailed \/ c = NULL)
          /\ IF ReturnsOnFalse(c)
               THEN /\ startRet' = ESP_ERR_INVALID_STATE
                    /\ callerPc' = "idle"
               ELSE /\ startRet' = startRet
                    /\ callerPc' = "s_register"
    /\ UNCHANGED <<s_mqtt_evtgrp_hdl, mqtt_connected, evtBits, mqtt_link_bits,
                   cbPc, stopRet, evtgrpHeap, registered, running, crashed,
                   lastCall,
                   connectedAtEntry, hdlsAtEntry, evtHist, readHist,
                   startReturned, setupComplete, miscHist>>

\* Line 160: esp_mqtt_client_register_event under ESP_RETURN_ON_ERROR.
StartRegisterEvent ==
    /\ callerPc = "s_register" /\ ~crashed
    /\ trace' = Append(trace, "esp_mqtt_client_register_event")
    /\ \E r \in LibResults :
          /\ registered' = IF r = ESP_OK
                             THEN registered \cup {mqtt_client_hdl}
                             ELSE registered
          /\ libFailed' = (libFailed \/ r # ESP_OK)
          /\ IF ReturnsOnError(r)
               THEN /\ startRet' = r
                    /\ callerPc' = "idle"
               ELSE /\ startRet' = startRet
                    /\ callerPc' = "s_clientstart"
    /\ UNCHANGED <<s_mqtt_evtgrp_hdl, mqtt_connected, mqtt_client_hdl, evtBits,
                   mqtt_link_bits, cbPc, stopRet, evtgrpHeap, clientHeap,
                   running, crashed, lastCall, connectedAtEntry, hdlsAtEntry,
                   evtHist, readHist, startReturned, setupComplete,
                   miscHist>>

\* Line 163: esp_mqtt_client_start under ESP_RETURN_ON_ERROR.
StartClientStart ==
    /\ callerPc = "s_clientstart" /\ ~crashed
    /\ trace' = Append(trace, "esp_mqtt_client_start")
    /\ \E r \in LibResults :
          /\ running' = IF r = ESP_OK
                          THEN running \cup {mqtt_client_hdl}
                          ELSE running
          /\ setupComplete' = (r = ESP_OK)
          /\ libFailed' = (libFailed \/ r # ESP_OK)
          /\ IF ReturnsOnError(r)
               THEN /\ startRet' = r
                    /\ callerPc' = "idle"
               ELSE /\ startRet' = startRet
                    /\ callerPc' = "s_wait"
    /\ UNCHANGED <<s_mqtt_evtgrp_hdl, mqtt_connected, mqtt_client_hdl, evtBits,
                   mqtt_link_bits, cbPc, stopRet, evtgrpHeap, clientHeap,
                   registered, crashed, lastCall, connectedAtEntry, hdlsAtEntry,
                   evtHist, readHist, startReturned, miscHist>>

\* StartWaitBits with pdTRUE for xClearOnExit: the bits waited for are cleared
\* when the wait returns.
StartWaitBits_ClearsOnExit ==
    /\ callerPc = "s_wait" /\ ~crashed
    /\ trace' = Append(trace, "xEventGroupWaitBits")
    /\ IF evtBits \cap WaitMask # {}
         THEN /\ mqtt_link_bits' = evtBits
              /\ evtBits' = evtBits \ WaitMask
              /\ callerPc' = "s_map"
              /\ readIdle' = HandlerIdle
              /\ readLastCD' = lastCD
              /\ readSeen' = eventsSeen
              /\ readBegunCD' = begunCD
         ELSE /\ callerPc' = "blocked"
              /\ UNCHANGED <<mqtt_link_bits, evtBits, readHist>>
    /\ UNCHANGED <<s_mqtt_evtgrp_hdl, mqtt_connected, mqtt_client_hdl,
                   cbPc, startRet, stopRet, envVars, lastCall, connectedAtEntry,
                   hdlsAtEntry, libFailed, evtHist, startReturned,
                   setupComplete, miscHist>>

\* StartWaitBits with a zero timeout in place of portMAX_DELAY: the wait
\* returns the bits of the moment, set or not, and never blocks.
StartWaitBits_Polls ==
    /\ callerPc = "s_wait" /\ ~crashed
    /\ trace' = Append(trace, "xEventGroupWaitBits")
    /\ mqtt_link_bits' = evtBits
    /\ callerPc' = "s_map"
    /\ readIdle' = HandlerIdle
    /\ readLastCD' = lastCD
    /\ readSeen' = eventsSeen
    /\ readBegunCD' = begunCD
    /\ UNCHANGED <<s_mqtt_evtgrp_hdl, mqtt_connected, mqtt_client_hdl, evtBits,
                   cbPc, startRet, stopRet, envVars, lastCall, connectedAtEntry,
                   hdlsAtEntry, libFailed, evtHist, startReturned,
                   setupComplete, miscHist>>

\* Lines 166-170: xEventGroupWaitBits(hdl, all three bits, pdFALSE, pdFALSE,
\* portMAX_DELAY): returns the bits at once when one of them is set, otherwise
\* blocks without a timeout; no bit is cleared on exit.
StartWaitBits ==
    /\ callerPc = "s_wait" /\ ~crashed
    /\ trace' = Append(trace, "xEventGroupWaitBits")
    /\ IF evtBits \cap WaitMask # {}
         THEN /\ mqtt_link_bits' = evtBits
              /\ callerPc' = "s_map"
              /\ readIdle' = HandlerIdle
              /\ readLastCD' = lastCD
              /\ readSeen' = eventsSeen
              /\ readBegunCD' = begunCD
         ELSE /\ callerPc' = "blocked"
              /\ UNCHANGED <<mqtt_link_bits, readHist>>
    /\ UNCHANGED <<s_mqtt_evtgrp_hdl, mqtt_connected, mqtt_client_hdl, evtBits,
                   cbPc, startRet, stopRet, envVars, lastCall, connectedAtEntry,
                   hdlsAtEntry, libFailed, evtHist, startReturned,
                   setupComplete, miscHist>>

\* Lines 174-192: the outcome mapping and the return.
StartReturnOutcome ==
    /\ callerPc = "s_map" /\ ~crashed
    /\ mqtt_connected' = OutcomeOf(mqtt_link_bits).connected
    /\ startRet' = OutcomeOf(mqtt_link_bits).ret
    /\ callerPc' = "idle"
    /\ startReturned' = TRUE
    /\ lastCDAfterReturn' = "none"
    /\ UNCHANGED <<s_mqtt_evtgrp_hdl, mqtt_client_hdl, evtBits, mqtt_link_bits,
                   cbPc, stopRet, envVars, callHist, lastEvent, lastCD,
                   begunCD, eventsSeen, dupEvent, cbAfterReturn, readHist,
                   setupComplete, miscHist>>

(***************************************************************************)
(* mqtt_stop, src/src/mqtt_connect.c:195-212.  Nothing in it checks the    *)
(* handles, so the caller can enter it in any state.                       *)
(***************************************************************************)
\* StopDisconnect with the event group freed, and its handle nulled, before the
\* client is disconnected, stopped and unregistered.
StopDisconnect_ReleasesFirst ==
    /\ callerPc = "idle" /\ ~crashed
    /\ mqtt_client_hdl # NULL
    /\ lastCall' = "stop"
    /\ trace' = <<"free", "esp_mqtt_client_disconnect">>
    /\ connectedAtEntry' = mqtt_connected
    /\ hdlsAtEntry' = <<mqtt_client_hdl, s_mqtt_evtgrp_hdl>>
    /\ evtgrpHeap' = evtgrpHeap \ {s_mqtt_evtgrp_hdl}
    /\ s_mqtt_evtgrp_hdl' = NULL
    /\ evtBits' = {}
    /\ \E r \in LibResults :
          /\ libFailed' = (r # ESP_OK)
          /\ IF r # ESP_OK
               THEN /\ stopRet' = r
                    /\ callerPc' = "idle"
               ELSE /\ stopRet' = stopRet
                    /\ callerPc' = "t_stop"
    /\ UNCHANGED <<mqtt_connected, mqtt_client_hdl, mqtt_link_bits, cbPc,
                   startRet, clientHeap, registered, running, crashed, evtHist,
                   readHist, startReturned, setupComplete, miscHist>>

\* Line 197: esp_mqtt_client_disconnect under ESP_RETURN_ON_ERROR.  Handed a
\* NULL client the library either rejects the call with ESP_ERR_INVALID_ARG
\* or dereferences it and the firmware aborts, depending on its version.
StopDisconnect ==
    /\ callerPc = "idle" /\ ~crashed
    /\ lastCall' = "stop"
    /\ trace' = <<"esp_mqtt_client_disconnect">>
    /\ connectedAtEntry' = mqtt_connected
    /\ hdlsAtEntry' = <<mqtt_client_hdl, s_mqtt_evtgrp_hdl>>
    /\ nullLibCall' = (mqtt_client_hdl = NULL)
    /\ readIdle' = FALSE /\ readLastCD' = "none" /\ readSeen' = {}
    /\ readBegunCD' = "none"
    /\ startInCycle' = startInCycle
    /\ startWhileRunning' = startWhileRunning
    /\ IF mqtt_client_hdl = NULL
         THEN \/ /\ crashed' = TRUE
                 /\ libFailed' = FALSE
                 /\ callerPc' = "t_disconnect"
                 /\ stopRet' = stopRet
              \/ /\ crashed' = FALSE
                 /\ libFailed' = TRUE
                 /\ ReturnsOnError(ESP_ERR_INVALID_ARG)
                 /\ callerPc' = "idle"
                 /\ stopRet' = ESP_ERR_INVALID_ARG
         ELSE /\ crashed' = FALSE
              /\ \E r \in LibResults :
                    /\ libFailed' = (r # ESP_OK)
                    /\ IF ReturnsOnError(r)
                         THEN /\ stopRet' = r
                              /\ callerPc' = "idle"
                         ELSE /\ stopRet' = stopRet
                              /\ callerPc' = "t_stop"
    /\ UNCHANGED <<s_mqtt_evtgrp_hdl, mqtt_connected, mqtt_client_hdl, evtBits,
                   mqtt_link_bits, cbPc, startRet, evtgrpHeap, clientHeap,
                   registered, running, evtHist, startReturned,
                   setupComplete>>

\* Line 200: esp_mqtt_client_stop under ESP_RETURN_ON_ERROR.  The call
\* succeeds once the client's task, which runs the handler, has ended.
StopClientStop ==
    /\ callerPc = "t_stop" /\ ~crashed
    /\ trace' = Append(trace, "esp_mqtt_client_stop")
    /\ \E r \in LibResults :
          /\ r = ESP_OK => cbPc[mqtt_client_hdl] = "idle"
          /\ running' = IF r = ESP_OK THEN running \ {mqtt_client_hdl}
                                      ELSE running
          /\ libFailed' = (libFailed \/ r # ESP_OK)
          /\ IF ReturnsOnError(r)
               THEN /\ stopRet' = r
                    /\ callerPc' = "idle"
               ELSE /\ stopRet' = stopRet
                    /\ callerPc' = "t_unregister"
    /\ UNCHANGED <<s_mqtt_evtgrp_hdl, mqtt_connected, mqtt_client_hdl, evtBits,
                   mqtt_link_bits, cbPc, startRet, evtgrpHeap, clientHeap,
                   registered, crashed, lastCall, connectedAtEntry, hdlsAtEntry,
                   evtHist, readHist, startReturned, setupComplete,
                   miscHist>>

\* Line 203: esp_mqtt_client_unregister_event under ESP_RETURN_ON_ERROR.
StopUnregisterEvent ==
    /\ callerPc = "t_unregister" /\ ~crashed
    /\ trace' = Append(trace, "esp_mqtt_client_unregister_event")
    /\ \E r \in LibResults :
          /\ registered' = IF r = ESP_OK THEN registered \ {mqtt_client_hdl}
                                         ELSE registered
          /\ libFailed' = (libFailed \/ r # ESP_OK)
          /\ IF ReturnsOnError(r)
               THEN /\ stopRet' = r
                    /\ callerPc' = "idle"
               ELSE /\ stopRet' = stopRet
                    /\ callerPc' = "t_cleanup"
    /\ UNCHANGED <<s_mqtt_evtgrp_hdl, mqtt_connected, mqtt_client_hdl, evtBits,
                   mqtt_link_bits, cbPc, startRet, evtgrpHeap, clientHeap,
                   running, crashed, lastCall, connectedAtEntry, hdlsAtEntry,
                   evtHist, readHist, startReturned, setupComplete,
                   miscHist>>

\* Lines 205-208: destroy the client, null its handle, free the event group.
\* Until line 209 has run, s_mqtt_evtgrp_hdl refers to the freed event group.
StopCleanup ==
    /\ callerPc = "t_cleanup" /\ ~crashed
    /\ trace' = trace \o <<"esp_mqtt_client_destroy", "free">>
    /\ clientHeap' = HeapFree(clientHeap, mqtt_client_hdl)
    /\ registered' = registered \ {mqtt_client_hdl}
    /\ running' = running \ {mqtt_client_hdl}
    /\ mqtt_client_hdl' = NULL
    /\ evtgrpHeap' = HeapFree(evtgrpHeap, s_mqtt_evtgrp_hdl)
    /\ callerPc' = "t_null"
    /\ UNCHANGED <<s_mqtt_evtgrp_hdl, mqtt_connected, evtBits, mqtt_link_bits,
                   cbPc, startRet, stopRet, crashed, lastCall,
                   connectedAtEntry, hdlsAtEntry, libFailed, evtHist,
                   readHist, startReturned, setupComplete, miscHist>>

\* StopNullEventGroup with the flag reset along with the handle.
StopNullEventGroup_ResetsFlag ==
    /\ callerPc = "t_null" /\ ~crashed
    /\ s_mqtt_evtgrp_hdl' = NULL
    /\ evtBits' = {}
    /\ stopRet' = ESP_OK
    /\ callerPc' = "idle"
    /\ setupComplete' = FALSE
    /\ mqtt_connected' = FALSE
    /\ lastEvent' = "none" /\ lastCD' = "none" /\ eventsSeen' = {}
    /\ begunCD' = "none"
    /\ dupEvent' = FALSE
    /\ cbAfterReturn' = {} /\ lastCDAfterReturn' = "none"
    /\ startReturned' = FALSE
    /\ UNCHANGED <<mqtt_client_hdl, mqtt_link_bits, cbPc, startRet,
                   envVars, callHist, readHist, miscHist>>

\* Lines 209-211: null the event group handle and return ESP_OK.  The cycle
\* is over: the history of its events starts afresh.
StopNullEventGroup ==
    /\ callerPc = "t_null" /\ ~crashed
    /\ s_mqtt_evtgrp_hdl' = NULL
    /\ evtBits' = {}
    /\ stopRet' = ESP_OK
    /\ callerPc' = "idle"
    /\ setupComplete' = FALSE
    /\ lastEvent' = "none" /\ lastCD' = "none" /\ eventsSeen' = {}
    /\ begunCD' = "none"
    /\ dupEvent' = FALSE
    /\ cbAfterReturn' = {} /\ lastCDAfterReturn' = "none"
    /\ startReturned' = FALSE
    /\ UNCHANGED <<mqtt_connected, mqtt_client_hdl, mqtt_link_bits, cbPc,
                   startRet, envVars, callHist, readHist, miscHist>>

(***************************************************************************)
(* mqtt_event_handler, src/src/mqtt_connect.c:84-136, run by the task of   *)
(* client c for every event of that client while the handler is registered *)
(* with it and its task runs.  A task handles one event at a time; the     *)
(* caller's context, and the task of another client, can run between any   *)
(* two event group calls of the handler.                                   *)
(***************************************************************************)
CanDispatch(c) ==
    cbPc[c] = "idle" /\ c \in registered /\ c \in running /\ ~crashed

\* xEventGroupSetBits(s_mqtt_evtgrp_hdl, b) by the handler: sets the bit and
\* releases the task blocked in xEventGroupWaitBits, handing it the new value.
\* On a NULL event group the call's assertion aborts the firmware; on an
\* event group that has been freed the behaviour is undefined: the firmware
\* aborts, or the call goes through on the freed memory.
HandlerSetBits(b) ==
    \/ /\ s_mqtt_evtgrp_hdl \notin evtgrpHeap
       /\ crashed' = TRUE
       /\ UNCHANGED <<evtBits, mqtt_link_bits, callerPc, readHist>>
    \/ /\ s_mqtt_evtgrp_hdl # NULL
       /\ crashed' = crashed
       /\ evtBits' = SetBits(evtBits, b)
       /\ IF callerPc = "blocked" /\ SetBits(evtBits, b) \cap WaitMask # {}
            THEN /\ mqtt_link_bits' = SetBits(evtBits, b)
                 /\ callerPc' = "s_map"
                 /\ readIdle' = FALSE
                 /\ readLastCD' = lastCD
                 /\ readSeen' = eventsSeen'
                 /\ readBegunCD' = begunCD'
            ELSE UNCHANGED <<mqtt_link_bits, callerPc, readHist>>

\* xEventGroupClearBits(s_mqtt_evtgrp_hdl, b) by the handler of client c, and
\* the handler's return; ev is the event being handled.  A NULL or freed
\* event group is treated as by HandlerSetBits, and the handler does not
\* return when the firmware aborts.
HandlerClearBits(c, b, ev) ==
    \/ /\ s_mqtt_evtgrp_hdl \notin evtgrpHeap
       /\ crashed' = TRUE
       /\ UNCHANGED <<evtBits, cbPc, lastCD, lastCDAfterReturn, cbAfterReturn>>
    \/ /\ s_mqtt_evtgrp_hdl # NULL
       /\ crashed' = crashed
       /\ evtBits' = ClearBits(evtBits, b)
       /\ cbPc' = [cbPc EXCEPT ![c] = "idle"]
       /\ lastCD' = ev
       /\ lastCDAfterReturn' = IF c \in cbAfterReturn THEN ev
                               ELSE lastCDAfterReturn
       /\ cbAfterReturn' = cbAfterReturn \ {c}

\* Lines 91-94: MQTT_EVENT_CONNECTED, the set of the Connected bit.
HandlerConnectedSet(c) ==
    /\ CanDispatch(c)
    /\ lastEvent' = "MQTT_EVENT_CONNECTED"
    /\ eventsSeen' = eventsSeen \cup {"MQTT_EVENT_CONNECTED"}
    /\ begunCD' = "MQTT_EVENT_CONNECTED"
    /\ dupEvent' = (lastEvent = "MQTT_EVENT_CONNECTED")
    /\ cbAfterReturn' = IF startReturned THEN cbAfterReturn \cup {c}
                        ELSE cbAfterReturn \ {c}
    /\ cbPc' = [cbPc EXCEPT ![c] = "connected_clear"]
    /\ HandlerSetBits(MQTT_EVTGRP_CONNECTED_BIT)
    /\ UNCHANGED <<s_mqtt_evtgrp_hdl, mqtt_connected, mqtt_client_hdl, startRet,
                   stopRet, evtgrpHeap, clientHeap, registered, running,
                   callHist, lastCD, lastCDAfterReturn, startReturned,
                   setupComplete, miscHist>>

\* Lines 95-96: MQTT_EVENT_CONNECTED, the clear of the Disconnected bit.
HandlerConnectedClear(c) ==
    /\ cbPc[c] = "connected_clear" /\ ~crashed
    /\ HandlerClearBits(c, MQTT_EVTGRP_DISCONNECTED_BIT, "MQTT_EVENT_CONNECTED")
    /\ UNCHANGED <<s_mqtt_evtgrp_hdl, mqtt_connected, mqtt_client_hdl,
                   mqtt_link_bits, callerPc, startRet, stopRet, evtgrpHeap,
                   clientHeap, registered, running, callHist, lastEvent,
                   begunCD, eventsSeen, dupEvent, readHist, startReturned,
                   setupComplete, miscHist>>

\* Lines 97-100: MQTT_EVENT_DISCONNECTED, the set of the Disconnected bit.
HandlerDisconnectedSet(c) ==
    /\ CanDispatch(c)
    /\ lastEvent' = "MQTT_EVENT_DISCONNECTED"
    /\ eventsSeen' = eventsSeen \cup {"MQTT_EVENT_DISCONNECTED"}
    /\ begunCD' = "MQTT_EVENT_DISCONNECTED"
    /\ dupEvent' = (lastEvent = "MQTT_EVENT_DISCONNECTED")
    /\ cbAfterReturn' = IF startReturned THEN cbAfterReturn \cup {c}
                        ELSE cbAfterReturn \ {c}
    /\ cbPc' = [cbPc EXCEPT ![c] = "disconnected_clear"]
    /\ HandlerSetBits(MQTT_EVTGRP_DISCONNECTED_BIT)
    /\ UNCHANGED <<s_mqtt_evtgrp_hdl, mqtt_connected, mqtt_client_hdl, startRet,
                   stopRet, evtgrpHeap, clientHeap, registered, running,
                   callHist, lastCD, lastCDAfterReturn, startReturned,
                   setupComplete, miscHist>>

\* Lines 101-102: MQTT_EVENT_DISCONNECTED, the clear of the Connected bit.
HandlerDisconnectedClear(c) ==
    /\ cbPc[c] = "disconnected_clear" /\ ~crashed
    /\ HandlerClearBits(c, MQTT_EVTGRP_CONNECTED_BIT, "MQTT_EVENT_DISCONNECTED")
    /\ UNCHANGED <<s_mqtt_evtgrp_hdl, mqtt_connected, mqtt_client_hdl,
                   mqtt_link_bits, callerPc, startRet, stopRet, evtgrpHeap,
                   clientHeap, registered, running, callHist, lastEvent,
                   begunCD, eventsSeen, dupEvent, readHist, startReturned,
                   setupComplete, miscHist>>

\* Lines 117-131: MQTT_EVENT_ERROR; the error type only selects the log line.
HandlerError(c) ==
    /\ CanDispatch(c)
    /\ \E error_type \in ErrorTypes :
          /\ lastEvent' = "MQTT_EVENT_ERROR"
          /\ eventsSeen' = eventsSeen \cup {"MQTT_EVENT_ERROR"}
          /\ begunCD' = begunCD
          /\ dupEvent' = (lastEvent = "MQTT_EVENT_ERROR")
          /\ HandlerSetBits(MQTT_EVTGRP_ERROR_BIT)
    /\ UNCHANGED <<s_mqtt_evtgrp_hdl, mqtt_connected, mqtt_client_hdl, cbPc,
                   startRet, stopRet, evtgrpHeap, clientHeap, registered,
                   running, callHist, lastCD, cbAfterReturn,
                   lastCDAfterReturn, startReturned, setupComplete, miscHist>>

\* HandlerLogOnly with a case that lacks its break and falls through to the
\* MQTT_EVENT_ERROR case, which sets the Error bit.
HandlerLogOnly_FallsThrough(c) ==
    /\ CanDispatch(c)
    /\ \E e \in LogOnlyEvents : lastEvent' = LoggedOnly
    /\ dupEvent' = FALSE
    /\ eventsSeen' = eventsSeen
    /\ begunCD' = begunCD
    /\ HandlerSetBits(MQTT_EVTGRP_ERROR_BIT)
    /\ UNCHANGED <<s_mqtt_evtgrp_hdl, mqtt_connected, mqtt_client_hdl, cbPc,
                   startRet, stopRet, evtgrpHeap, clientHeap, registered,
                   running, callHist, lastCD, cbAfterReturn,
                   lastCDAfterReturn, startReturned, setupComplete, miscHist>>

\* Lines 103-116 and 132-134: Subscribed, Unsubscribed, Published, Data and
\* every other event id are logged and nothing else.
HandlerLogOnly(c) ==
    /\ CanDispatch(c)
    /\ \E e \in LogOnlyEvents : lastEvent' = LoggedOnly
    /\ dupEvent' = FALSE
    /\ UNCHANGED <<progVars, envVars, callHist, lastCD, begunCD, eventsSeen,
                   cbAfterReturn, lastCDAfterReturn, readHist, startReturned,
                   setupComplete, miscHist>>

(***************************************************************************)
(* The system.                                                             *)
(***************************************************************************)
\* A step of an mqtt_start or mqtt_stop call that has been entered.
CallerStep ==
    \/ StartClientInit
    \/ StartRegisterEvent
    \/ StartClientStart
    \/ StartWaitBits
    \/ StartReturnOutcome
    \/ StopClientStop
    \/ StopUnregisterEvent
    \/ StopCleanup
    \/ StopNullEventGroup

\* A step of the handler that client c's task has entered.
HandlerStep(c) ==
    \/ HandlerConnectedClear(c)
    \/ HandlerDisconnectedClear(c)

Next ==
    \/ StartCreateEventGroup
    \/ StartClientInit
    \/ StartRegisterEvent
    \/ StartClientStart
    \/ StartWaitBits
    \/ StartReturnOutcome
    \/ StopDisconnect
    \/ StopClientStop
    \/ StopUnregisterEvent
    \/ StopCleanup
    \/ StopNullEventGroup
    \/ \E c \in Handles : HandlerConnectedSet(c)
    \/ \E c \in Handles : HandlerConnectedClear(c)
    \/ \E c \in Handles : HandlerDisconnectedSet(c)
    \/ \E c \in Handles : HandlerDisconnectedClear(c)
    \/ \E c \in Handles : HandlerError(c)
    \/ \E c \in Handles : HandlerLogOnly(c)

Spec == Init /\ [][Next]_vars

\* The scheduler is preemptive and lets every ready task run: a call that has
\* been entered, and a handler that has been entered, take their next step.
\* Nothing obliges the broker or the network to produce an event, nor the
\* caller to make another call.
FairSpec ==
    Spec /\ WF_vars(CallerStep) /\ \A c \in Handles : WF_vars(HandlerStep(c))

\* Fair scheduling of the caller only: the task that calls mqtt_start and
\* mqtt_stop takes its next step whenever it is ready; nothing is assumed of
\* the clients' tasks.
CallerFairSpec == Spec /\ WF_vars(CallerStep)

(***************************************************************************)
(* Vocabulary of the properties.                                           *)
(***************************************************************************)
InTrace(c) == \E i \in DOMAIN trace : trace[i] = c

\* The underlying calls of mqtt_start's setup and of mqtt_stop, in code order.
SetupCalls == <<"xEventGroupCreate", "esp_mqtt_client_init",
                "esp_mqtt_client_register_event", "esp_mqtt_client_start">>
TeardownCalls == <<"esp_mqtt_client_disconnect", "esp_mqtt_client_stop",
                   "esp_mqtt_client_unregister_event">>

IsPrefix(t, u) == Len(t) <= Len(u) /\ t = SubSeq(u, 1, Len(t))

\* The last API call was mqtt_start and it has returned.
StartHasReturned == callerPc = "idle" /\ lastCall = "start" /\ ~crashed
\* ... and it returned from its wait.
StartHasReturnedFromWait == StartHasReturned /\ InTrace("xEventGroupWaitBits")
\* The caller has kept to one start/stop cycle at a time: mqtt_start has
\* never been entered while a client task was running.
OneCycleAtATime == ~startWhileRunning

\* The last API call was mqtt_stop and it has returned.
StopHasReturned == callerPc = "idle" /\ lastCall = "stop" /\ ~crashed

(***************************************************************************)
(* C1.  mqtt_start has no silent failure path: it returns ESP_OK if and    *)
(* only if its wait observed the Connected bit, so whenever it returns     *)
(* ESP_OK mqtt_connected is true; with only Error events delivered it      *)
(* returns a value other than ESP_OK and mqtt_connected is false.          *)
(* The code returns MQTT_ERROR_TYPE_NONE, which is 0 = ESP_OK, on the      *)
(* Error bit: this statement is violated.                                  *)
(***************************************************************************)
C1_NoSilentFailure ==
    StartHasReturned =>
        /\ startRet = ESP_OK <=>
              (/\ InTrace("xEventGroupWaitBits")
               /\ MQTT_EVTGRP_CONNECTED_BIT \in mqtt_link_bits)
        /\ startRet = ESP_OK => mqtt_connected

(***************************************************************************)
(* C2.  Whatever set of bits the wait of mqtt_start returns, the outcome   *)
(* follows the priority Connected > Disconnected > Error: Connected set    *)
(* gives ESP_OK and mqtt_connected = TRUE; otherwise Disconnected set      *)
(* gives MQTT_ERROR_TYPE_CONNECTION_REFUSED and mqtt_connected = FALSE;    *)
(* otherwise Error set gives the value the code uses for the generic       *)
(* error, MQTT_ERROR_TYPE_NONE, and mqtt_connected = FALSE.                *)
(***************************************************************************)
C2_OutcomePriority ==
    StartHasReturnedFromWait =>
        /\ MQTT_EVTGRP_CONNECTED_BIT \in mqtt_link_bits =>
              startRet = ESP_OK /\ mqtt_connected = TRUE
        /\ (/\ MQTT_EVTGRP_CONNECTED_BIT \notin mqtt_link_bits
            /\ MQTT_EVTGRP_DISCONNECTED_BIT \in mqtt_link_bits) =>
              /\ startRet = MQTT_ERROR_TYPE_CONNECTION_REFUSED
              /\ mqtt_connected = FALSE
        /\ (/\ MQTT_EVTGRP_CONNECTED_BIT \notin mqtt_link_bits
            /\ MQTT_EVTGRP_DISCONNECTED_BIT \notin mqtt_link_bits
            /\ MQTT_EVTGRP_ERROR_BIT \in mqtt_link_bits) =>
              /\ startRet = MQTT_ERROR_TYPE_NONE
              /\ mqtt_connected = FALSE

\* mqtt_start has returned from a wait that handed it all three bits at once.
C2_Witness ==
    /\ StartHasReturnedFromWait
    /\ mqtt_link_bits = WaitMask
    /\ startRet = ESP_OK

(***************************************************************************)
(* C3.  mqtt_start is bounded by a timeout: a call blocked in its wait     *)
(* returns even if no Connected, Disconnected or Error event is ever       *)
(* delivered.  (An outcome event releases the blocked call in the step     *)
(* that sets the bit, so the behaviours in which the call stays blocked    *)
(* are those without such an event.)  The wait is made with portMAX_DELAY: *)
(* this statement is violated.                                             *)
(***************************************************************************)
C3_StartBoundedByTimeout ==
    (callerPc = "blocked") ~> StartHasReturned

(***************************************************************************)
(* C4.  With one start/stop cycle at a time: when every handler invocation *)
(* so far was complete at the moment the wait of mqtt_start read the bits, *)
(* the last Connected/Disconnected                                         *)
(* event decides the outcome, whatever came before it and whatever Error   *)
(* events there were: Connected gives ESP_OK and mqtt_connected = TRUE,    *)
(* Disconnected gives MQTT_ERROR_TYPE_CONNECTION_REFUSED and               *)
(* mqtt_connected = FALSE.                                                 *)
(***************************************************************************)
C4_LastEventDecides ==
    (OneCycleAtATime /\ StartHasReturnedFromWait /\ readIdle) =>
        /\ readLastCD = "MQTT_EVENT_CONNECTED" =>
              startRet = ESP_OK /\ mqtt_connected = TRUE
        /\ readLastCD = "MQTT_EVENT_DISCONNECTED" =>
              /\ startRet = MQTT_ERROR_TYPE_CONNECTION_REFUSED
              /\ mqtt_connected = FALSE

\* The wait read the bits after Connected, Error and then Disconnected events
\* had been handled, and mqtt_start has returned.
C4_Witness ==
    /\ OneCycleAtATime
    /\ StartHasReturnedFromWait
    /\ readIdle
    /\ readLastCD = "MQTT_EVENT_DISCONNECTED"
    /\ readSeen = {"MQTT_EVENT_CONNECTED", "MQTT_EVENT_DISCONNECTED",
                   "MQTT_EVENT_ERROR"}
    /\ startRet = MQTT_ERROR_TYPE_CONNECTION_REFUSED

(***************************************************************************)
(* C5.  After mqtt_start has returned success with mqtt_connected = TRUE,  *)
(* the handler keeps the flag current without anyone waiting: once it has  *)
(* handled a Disconnected event the flag is FALSE, and once it has handled *)
(* a later Connected event the flag is TRUE again.  The handler never      *)
(* writes mqtt_connected: this statement is violated.                      *)
(***************************************************************************)
C5_FlagFollowsHandler ==
    (/\ startReturned
     /\ startRet = ESP_OK
     /\ MQTT_EVTGRP_CONNECTED_BIT \in mqtt_link_bits) =>
        /\ lastCDAfterReturn = "MQTT_EVENT_DISCONNECTED" => mqtt_connected = FALSE
        /\ lastCDAfterReturn = "MQTT_EVENT_CONNECTED" => mqtt_connected = TRUE

(***************************************************************************)
(* C6.  Lifecycle invariant: whenever no mqtt_start or mqtt_stop call is   *)
(* in progress, the event group handle is non-null if and only if the      *)
(* client handle is non-null, and both are non-null exactly when a start   *)
(* has completed its setup and no stop has torn it down since -- after     *)
(* every outcome of start, its setup failures included, and of stop.       *)
(* A start that fails after xEventGroupCreate keeps the event group (and,  *)
(* after esp_mqtt_client_init, the client): this statement is violated.    *)
(***************************************************************************)
C6_LifecycleInvariant ==
    (callerPc = "idle" /\ ~crashed) =>
        /\ s_mqtt_evtgrp_hdl # NULL <=> mqtt_client_hdl # NULL
        /\ s_mqtt_evtgrp_hdl # NULL <=> setupComplete

(***************************************************************************)
(* C7.  When mqtt_stop is called and every teardown call succeeds, it      *)
(* returns ESP_OK and afterwards the client handle is NULL, the event      *)
(* group handle is NULL, and the client and the event group the handles    *)
(* referred to at the call are no longer allocated.                        *)
(***************************************************************************)
C7_StopReleases ==
    (StopHasReturned /\ ~libFailed) =>
        /\ stopRet = ESP_OK
        /\ mqtt_client_hdl = NULL
        /\ s_mqtt_evtgrp_hdl = NULL
        /\ hdlsAtEntry[1] \notin clientHeap
        /\ hdlsAtEntry[2] \notin evtgrpHeap

\* mqtt_stop has returned ESP_OK after an mqtt_start that returned success.
C7_Witness ==
    /\ StopHasReturned
    /\ ~libFailed
    /\ startRet = ESP_OK /\ mqtt_connected
    /\ hdlsAtEntry[1] # NULL /\ hdlsAtEntry[2] # NULL
    /\ trace = TeardownCalls \o <<"esp_mqtt_client_destroy", "free">>

(***************************************************************************)
(* C8.  mqtt_stop called while no cycle is active (before any start, or    *)
(* again after a successful stop) is a no-op or a "not started" error of   *)
(* its own: it never hands a NULL client handle to the client library and  *)
(* the firmware never aborts.  mqtt_stop passes mqtt_client_hdl to         *)
(* esp_mqtt_client_disconnect unchecked: this statement is violated.       *)
(***************************************************************************)
C8_StopWithoutCycleIsGuarded ==
    ~nullLibCall /\ ~crashed

(***************************************************************************)
(* C9.  Each of the four setup failures of mqtt_start (event group         *)
(* allocation, client init, event registration, client start) aborts it    *)
(* at once: the call is over in the step of the failure, it returned a     *)
(* value other than ESP_OK, the failing call is the last it made, no       *)
(* setup call was made twice, the wait was never entered, and              *)
(* mqtt_connected has the value it had at the call.                        *)
(***************************************************************************)
C9_SetupFailureAborts ==
    (lastCall = "start" /\ libFailed) =>
        /\ callerPc = "idle"
        /\ startRet # ESP_OK
        /\ IsPrefix(trace, SetupCalls)
        /\ ~InTrace("xEventGroupWaitBits")
        /\ mqtt_connected = connectedAtEntry
        /\ Len(trace) = 1 => s_mqtt_evtgrp_hdl = NULL
        /\ Len(trace) = 2 => mqtt_client_hdl = NULL
        /\ Len(trace) = 3 => mqtt_client_hdl \notin registered
        /\ Len(trace) = 4 => mqtt_client_hdl \notin running

\* mqtt_start, called with mqtt_connected = TRUE, has failed in its last setup
\* call, esp_mqtt_client_start.
C9_Witness ==
    /\ lastCall = "start" /\ libFailed
    /\ trace = SetupCalls
    /\ connectedAtEntry = TRUE
    /\ startRet \in LibErrors

(***************************************************************************)
(* C10.  If one of the three fallible teardown calls of mqtt_stop          *)
(* (disconnect, stop, unregister) fails, mqtt_stop returns that error in   *)
(* the same step, makes none of the later teardown calls, and leaves the   *)
(* client handle and the event group handle as they were at the call: a    *)
(* handle that was non-null still is, and what it refers to is still       *)
(* allocated.                                                              *)
(***************************************************************************)
C10_TeardownFailureStops ==
    (lastCall = "stop" /\ libFailed) =>
        /\ callerPc = "idle"
        /\ stopRet \in LibErrors
        /\ IsPrefix(trace, TeardownCalls)
        /\ ~InTrace("esp_mqtt_client_destroy") /\ ~InTrace("free")
        /\ <<mqtt_client_hdl, s_mqtt_evtgrp_hdl>> = hdlsAtEntry
        /\ mqtt_client_hdl # NULL => mqtt_client_hdl \in clientHeap
        /\ s_mqtt_evtgrp_hdl # NULL => s_mqtt_evtgrp_hdl \in evtgrpHeap

\* mqtt_stop, called on a started client, has failed in its third teardown
\* call, esp_mqtt_client_unregister_event.
C10_Witness ==
    /\ lastCall = "stop" /\ libFailed
    /\ trace = TeardownCalls
    /\ hdlsAtEntry[1] # NULL /\ hdlsAtEntry[2] # NULL
    /\ startReturned
    /\ stopRet \in LibErrors

(***************************************************************************)
(* C11.  mqtt_stop makes its teardown calls in the fixed order disconnect, *)
(* stop, unregister, destroy (and null the client handle), free (and null  *)
(* the event group handle); so, with one start/stop cycle at a time, the   *)
(* handler is only ever dispatched, and                                    *)
(* only ever in the middle of an event, while the event group handle is    *)
(* non-null and refers to an allocated event group: the event group is     *)
(* created before the handler is registered and released only after the    *)
(* client's task has stopped and the handler is unregistered.              *)
(***************************************************************************)
C11_TeardownOrder ==
    /\ lastCall = "stop" =>
          IsPrefix(trace, TeardownCalls \o <<"esp_mqtt_client_destroy", "free">>)
    /\ (OneCycleAtATime /\ (registered \cap running # {} \/ ~HandlerIdle)) =>
          /\ s_mqtt_evtgrp_hdl # NULL
          /\ s_mqtt_evtgrp_hdl \in evtgrpHeap
    /\ (OneCycleAtATime /\ callerPc \in {"t_cleanup", "t_null"}) =>
          /\ mqtt_client_hdl \notin registered
          /\ mqtt_client_hdl \notin running
          /\ registered \cap running = {}
          /\ HandlerIdle

\* The handler is in the middle of an event while mqtt_stop has disconnected
\* the client and not yet stopped it.
C11_Witness ==
    /\ OneCycleAtATime
    /\ lastCall = "stop" /\ callerPc = "t_stop"
    /\ cbPc[mqtt_client_hdl] = "disconnected_clear"
    /\ s_mqtt_evtgrp_hdl # NULL

(***************************************************************************)
(* C12.  With one start/stop cycle at a time:                              *)
(* once the handler has completely handled a Connected event the           *)
(* Connected bit is set and the Disconnected bit is clear, and once it has *)
(* completely handled a Disconnected event the Disconnected bit is set and *)
(* the Connected bit is clear (so after Connected and then Disconnected,   *)
(* of the two only Disconnected is set); this lasts until the handler is   *)
(* invoked again or the event group is released.  No step of the handling  *)
(* of either event changes the Error bit.                                  *)
(***************************************************************************)
C12_CompleteCDBits ==
    (OneCycleAtATime /\ HandlerIdle /\ s_mqtt_evtgrp_hdl # NULL) =>
        /\ lastCD = "MQTT_EVENT_CONNECTED" =>
              /\ MQTT_EVTGRP_CONNECTED_BIT \in evtBits
              /\ MQTT_EVTGRP_DISCONNECTED_BIT \notin evtBits
        /\ lastCD = "MQTT_EVENT_DISCONNECTED" =>
              /\ MQTT_EVTGRP_DISCONNECTED_BIT \in evtBits
              /\ MQTT_EVTGRP_CONNECTED_BIT \notin evtBits

C12_ConnectedDisconnectedBits ==
    [][ /\ C12_CompleteCDBits'
        /\ (OneCycleAtATime' /\ cbPc' # cbPc) =>
              (MQTT_EVTGRP_ERROR_BIT \in evtBits' <=>
               MQTT_EVTGRP_ERROR_BIT \in evtBits) ]_vars

\* A Connected and then a Disconnected event have been handled, with the Error
\* bit set: of the two bits only Disconnected is set, and Error still is.
C12_Witness ==
    /\ OneCycleAtATime
    /\ HandlerIdle /\ s_mqtt_evtgrp_hdl # NULL
    /\ lastCD = "MQTT_EVENT_DISCONNECTED"
    /\ "MQTT_EVENT_CONNECTED" \in eventsSeen
    /\ evtBits = {MQTT_EVTGRP_DISCONNECTED_BIT, MQTT_EVTGRP_ERROR_BIT}

(***************************************************************************)
(* C13.  With the handler on another task, preemptible between its set and *)
(* its clear, the waiter in mqtt_start never observes a stale state as     *)
(* current: the Connected and Disconnected bits are never both set in a    *)
(* state the wait reads, and mqtt_start never returns success with         *)
(* mqtt_connected = TRUE when the last Connected/Disconnected event the    *)
(* handler had been invoked with, as the wait read the bits, is            *)
(* Disconnected.  The handler sets the new bit before it clears the old    *)
(* one, in two calls: this statement is violated.                          *)
(***************************************************************************)
C13_NoStaleObservation ==
    /\ callerPc = "s_wait" =>
          ~({MQTT_EVTGRP_CONNECTED_BIT, MQTT_EVTGRP_DISCONNECTED_BIT}
                \subseteq evtBits)
    /\ (StartHasReturnedFromWait /\ readBegunCD = "MQTT_EVENT_DISCONNECTED") =>
          ~(startRet = ESP_OK /\ mqtt_connected)

(***************************************************************************)
(* C14.  With one start/stop cycle at a time:                              *)
(* delivering the same outcome event (Connected, Disconnected or           *)
(* Error) again, right after it was delivered, changes nothing: neither    *)
(* step of the repeated handling changes the bits of the event group, and  *)
(* it neither releases the waiter nor changes what the wait returned, what *)
(* mqtt_start returned or mqtt_connected -- so the waiter is released once *)
(* per call, with the result of a single delivery.                         *)
(***************************************************************************)
C14_WaiterUntouched ==
    /\ evtBits' = evtBits
    /\ callerPc' = callerPc
    /\ mqtt_link_bits' = mqtt_link_bits
    /\ startRet' = startRet
    /\ mqtt_connected' = mqtt_connected

C14_DuplicateIdempotent ==
    [][ \* the set step of a repeated Connected, Disconnected or Error event
        /\ (OneCycleAtATime' /\ dupEvent' /\ (cbPc' # cbPc \/ ~dupEvent)) =>
              C14_WaiterUntouched
        \* the clear step of a repeated Connected or Disconnected event
        /\ (OneCycleAtATime' /\ dupEvent /\ ~HandlerIdle /\ HandlerIdle') =>
              C14_WaiterUntouched
      ]_vars

\* A Disconnected event has been handled twice in a row after the first had
\* released the waiter, which holds the bits of the first delivery.
C14_Witness ==
    /\ OneCycleAtATime
    /\ dupEvent /\ HandlerIdle
    /\ lastEvent = "MQTT_EVENT_DISCONNECTED"
    /\ callerPc = "s_map" /\ ~readIdle
    /\ mqtt_link_bits = {MQTT_EVTGRP_DISCONNECTED_BIT}
    /\ evtBits = {MQTT_EVTGRP_DISCONNECTED_BIT}

(***************************************************************************)
(* C15.  Handling a Subscribed, Unsubscribed, Published or Data event, or  *)
(* an event of any other id, changes no state: the bits of the event       *)
(* group, mqtt_connected, both handles and everything else of the program  *)
(* and of the client keep their values, and a waiter blocked in mqtt_start *)
(* stays blocked.                                                          *)
(***************************************************************************)
C15_LogOnlyEventsChangeNothing ==
    [][ (lastEvent' = LoggedOnly /\ lastEvent # LoggedOnly) =>
            UNCHANGED <<progVars, envVars>> ]_vars

\* A log-only event has been handled while mqtt_start is blocked in its wait.
C15_Witness ==
    /\ lastEvent = LoggedOnly
    /\ callerPc = "blocked"
    /\ evtBits = {}

(***************************************************************************)
(* C16.  With the indefinite wait the fourth branch of the outcome mapping *)
(* is unreachable: whenever the wait of mqtt_start has returned, at least  *)
(* one of the three outcome bits is in the value it returned, and          *)
(* mqtt_start never returns ESP_ERR_NOT_SUPPORTED, however the steps of    *)
(* the handler interleave with the wait.                                   *)
(***************************************************************************)
C16_UnsupportedUnreachable ==
    /\ callerPc = "s_map" => mqtt_link_bits \cap WaitMask # {}
    /\ StartHasReturnedFromWait => mqtt_link_bits \cap WaitMask # {}
    /\ startRet # ESP_ERR_NOT_SUPPORTED

\* mqtt_start has returned from a wait that ended while the handler was between
\* its set and its clear, with both the Connected and the Disconnected bit in
\* the value the wait returned.
C16_Witness ==
    /\ StartHasReturnedFromWait
    /\ ~readIdle
    /\ {MQTT_EVTGRP_CONNECTED_BIT, MQTT_EVTGRP_DISCONNECTED_BIT} \subseteq mqtt_link_bits
    /\ startRet = ESP_OK

(***************************************************************************)
(* C17.  Across the sequences of mqtt_start and mqtt_stop calls in which   *)
(* mqtt_start is never called while a cycle is active (a new mqtt_start    *)
(* after one that failed during its setup included), at most one event     *)
(* group and one client instance are allocated at any time, and each       *)
(* allocated one is referred to by its handle.                             *)
(* mqtt_start releases nothing on its error returns and line 143           *)
(* overwrites the handle: this statement is violated.                      *)
(***************************************************************************)
C17_NoLeak ==
    ~startInCycle =>
        /\ Cardinality(evtgrpHeap) <= 1
        /\ Cardinality(clientHeap) <= 1
        /\ evtgrpHeap \subseteq {s_mqtt_evtgrp_hdl}
        /\ clientHeap \subseteq {mqtt_client_hdl}

(***************************************************************************)
(* C18.  mqtt_stop never modifies mqtt_connected, whether it succeeds or   *)
(* returns an error: during and after a call of mqtt_stop the flag has the *)
(* value it had when the call began, which the last mqtt_start wrote.  So  *)
(* after a successful start and a successful stop it still reads true      *)
(* while the client handle is null.                                        *)
(***************************************************************************)
C18_StopKeepsFlag ==
    lastCall = "stop" => mqtt_connected = connectedAtEntry

\* A successful mqtt_stop after a successful mqtt_start: the flag is still true
\* and the client handle is null.
C18_Witness ==
    /\ StopHasReturned
    /\ stopRet = ESP_OK
    /\ Len(trace) = Len(TeardownCalls) + 2
    /\ mqtt_connected
    /\ mqtt_client_hdl = NULL

(***************************************************************************)
(* C19.  Liveness, with one start/stop cycle at a time:                    *)
(* once mqtt_start has completed its setup and the handler                 *)
(* has since handled at least one Connected, Disconnected or Error event,  *)
(* mqtt_start eventually leaves its wait and returns, under fair           *)
(* scheduling of the caller alone and whatever further events, alternating *)
(* Connected and Disconnected events included, are delivered meanwhile.    *)
(***************************************************************************)
C19_StartEventuallyReturns ==
    (/\ OneCycleAtATime
     /\ lastCall = "start"
     /\ setupComplete
     /\ callerPc \in {"s_wait", "blocked", "s_map"}
     /\ eventsSeen # {})
        ~> StartHasReturnedFromWait

\* mqtt_start is past its setup and has not returned, while Connected,
\* Disconnected and Error events have all been handled and the handler is in
\* the middle of one more.
C19_Witness ==
    /\ OneCycleAtATime
    /\ lastCall = "start"
    /\ setupComplete
    /\ callerPc \in {"s_wait", "s_map"}
    /\ eventsSeen = {"MQTT_EVENT_CONNECTED", "MQTT_EVENT_DISCONNECTED",
                     "MQTT_EVENT_ERROR"}
    /\ ~HandlerIdle

(***************************************************************************)
(* C20.  Within one start/stop cycle, that is with one cycle at a time and  *)
(* while the handle of the event group keeps its value,                    *)
(* the set of outcome bits is never empty                                  *)
(* again once one of them has been set, in the states between the set and  *)
(* the clear of the handler as well (the handler sets the new bit before   *)
(* it clears the complementary one), and the Error bit, once set, is       *)
(* cleared by no event and not by the wait.                                *)
(***************************************************************************)
C20_OutcomeBitsStay ==
    [][ (/\ OneCycleAtATime'
         /\ s_mqtt_evtgrp_hdl # NULL
         /\ s_mqtt_evtgrp_hdl' = s_mqtt_evtgrp_hdl) =>
            /\ evtBits \cap WaitMask # {} => evtBits' \cap WaitMask # {}
            /\ MQTT_EVTGRP_ERROR_BIT \in evtBits =>
                   MQTT_EVTGRP_ERROR_BIT \in evtBits' ]_vars

\* The wait of mqtt_start has returned, Connected, Disconnected and Error
\* events have all been handled in this cycle, the handler is between its set
\* and its clear, and the Error bit is still set.
C20_Witness ==
    /\ OneCycleAtATime
    /\ StartHasReturnedFromWait
    /\ s_mqtt_evtgrp_hdl # NULL
    /\ ~HandlerIdle
    /\ eventsSeen = {"MQTT_EVENT_CONNECTED", "MQTT_EVENT_DISCONNECTED",
                     "MQTT_EVENT_ERROR"}
    /\ MQTT_EVTGRP_ERROR_BIT \in evtBits
    /\ MQTT_EVTGRP_ERROR_BIT \in mqtt_link_bits

====
